---- MODULE Spec2Model ----
(***************************************************************************)
(* A model of fiftyone/utils/youtube.py: download_youtube_videos, its task *)
(* builder, the sequential and pooled orchestrators, the per-video         *)
(* executor _do_download and the stream selector _get_stream.              *)
(*                                                                         *)
(* Python values are encoded uniformly as sequences of strings:            *)
(*   - a str is the sequence of its characters, "" is << >>;               *)
(*   - None is the one-element sequence NoneVal;                           *)
(*   - an opaque message or an exception class is a one-element sequence   *)
(*     holding its text (only its truthiness and identity matter).         *)
(***************************************************************************)
EXTENDS Integers, Sequences, FiniteSets, TLC

\* ------------------------------------------------------------------ bounds

\* The longest urls list a call is given.
MaxVideos == 2

\* ------------------------------------------------------------ Python values

NoneVal == <<"None">>

\* Python truthiness of a str-or-None value (`if error:`, `if messages:`).
Truthy(v) == v /= NoneVal /\ v /= << >>

Msg(text) == <<text>>

\* type(e) for a pytube.exceptions.PytubeError: a class object, always truthy.
PytubeErrorClass == <<"<class 'pytube.exceptions.PytubeError'>">>

\* ------------------------------------------------------------------ os.path

\* The greatest index of character c in s, 0 when absent (str.rfind + 1).
RECURSIVE RFind(_, _)
RFind(s, c) ==
    IF s = << >> THEN 0
    ELSE IF s[Len(s)] = c THEN Len(s)
    ELSE RFind(SubSeq(s, 1, Len(s) - 1), c)

\* os.path.basename: what follows the last "/".
Basename(p) == SubSeq(p, RFind(p, "/") + 1, Len(p))

\* os.path.join(a, b).
Join(a, b) ==
    IF b /= << >> /\ b[1] = "/" THEN b
    ELSE IF a = << >> \/ a[Len(a)] = "/" THEN a \o b
    ELSE a \o <<"/">> \o b

\* os.path.splitext(p) as <<root, ext>>: the extension starts at the last dot
\* of the last component, unless only dots precede it in that component.
Splitext(p) ==
    LET sep == RFind(p, "/")
        dot == RFind(p, ".")
    IN  IF dot > sep /\ \E k \in (sep + 1)..(dot - 1) : p[k] /= "."
        THEN <<SubSeq(p, 1, dot - 1), SubSeq(p, dot, Len(p))>>
        ELSE <<p, << >> >>

\* ------------------------------------------------- the stream provider (pytube)

\* A stream as pytube reports it. default_filename is "<title>.<subtype>".
Stream(type, subtype, progressive, res, title) ==
    [type |-> type, subtype |-> subtype, progressive |-> progressive,
     res |-> res, title |-> title]

DefaultFilename(s) == s.title \o <<".">> \o s.subtype

NoStream == Stream("none", << >>, FALSE, 0, << >>)

\* An extension argument of _get_stream: None, a str, or (line 284) the
\* (root, ext) tuple that os.path.splitext returns.
ExtNone == [kind |-> "none", s |-> << >>]
ExtStr(s) == [kind |-> "str", s |-> s]
ExtTuple(t) == [kind |-> "tuple", s |-> t[1] \o t[2]]

OfOptional(v) == IF v = NoneVal THEN ExtNone ELSE ExtStr(v)

\* A resolution policy after parsing: "highest", "lowest" or an int target.
Highest == [kind |-> "highest", n |-> 0]
Lowest == [kind |-> "lowest", n |-> 0]
Target(n) == [kind |-> "num", n |-> n]

\* An exception: its class and str(e).
Exc(cls, msg) == [cls |-> cls, msg |-> msg]
NoExc == Exc("none", << >>)

\* ------------------------------------------------------------- _find_nearest

Abs(x) == IF x < 0 THEN -x ELSE x

\* A slip in line 380: the last index of the least distance.
FindNearestLast(array, target) ==
    CHOOSE i \in 1..Len(array) :
        /\ \A j \in 1..Len(array) :
              Abs(array[i] - target) <= Abs(array[j] - target)
        /\ \A j \in (i + 1)..Len(array) :
              Abs(array[j] - target) > Abs(array[i] - target)

\* np.argmin(np.abs(array - target)): the first index of the least distance
\* (1-based here).
FindNearest(array, target) ==
    CHOOSE i \in 1..Len(array) :
        /\ \A j \in 1..Len(array) :
              Abs(array[i] - target) <= Abs(array[j] - target)
        /\ \A j \in 1..(i - 1) :
              Abs(array[j] - target) > Abs(array[i] - target)

\* --------------------------------------------------------------- _get_stream

\* pytube's StreamQuery.filter(type="video", progressive=p, file_extension=fe):
\* progressive is a filter only when true; file_extension is a filter only
\* when truthy, and keeps the streams whose subtype equals it (a tuple equals
\* no subtype).
StreamMatches(s, progressive, fe) ==
    /\ s.type = "video"
    /\ progressive => s.progressive
    /\ CASE fe.kind = "str" -> fe.s = << >> \/ s.subtype = fe.s
         [] OTHER -> FALSE

FilterStreams(streams, progressive, fe) ==
    SelectSeq(streams, LAMBDA s : StreamMatches(s, progressive, fe))

\* ext[1:] of a str or of a tuple.
DropFirst(ext) ==
    IF ext.kind = "str" THEN ExtStr(IF ext.s = << >> THEN << >> ELSE Tail(ext.s))
    ELSE [kind |-> "tuple1", s |-> ext.s]

\* streams.order_by("resolution").first(): the least resolution, the first
\* such stream (the sort is stable).
FirstLowest(streams) ==
    streams[CHOOSE i \in 1..Len(streams) :
        /\ \A j \in 1..Len(streams) : streams[i].res <= streams[j].res
        /\ \A j \in 1..(i - 1) : streams[j].res > streams[i].res]

\* streams.order_by("resolution").desc().first(): the last stream of the
\* ascending stable sort.
FirstHighest(streams) ==
    streams[CHOOSE i \in 1..Len(streams) :
        /\ \A j \in 1..Len(streams) : streams[i].res >= streams[j].res
        /\ \A j \in (i + 1)..Len(streams) : streams[j].res < streams[i].res]

SelectByResolution(streams, resolution) ==
    IF resolution.kind = "num"
    THEN streams[FindNearest([k \in 1..Len(streams) |-> streams[k].res],
                             resolution.n)]
    ELSE IF resolution.kind = "lowest" THEN FirstLowest(streams)
    ELSE FirstHighest(streams)

Found(s) == [kind |-> "stream", stream |-> s, exc |-> NoExc]
NotFound == [kind |-> "none", stream |-> NoStream, exc |-> NoExc]
Raised(e) == [kind |-> "raise", stream |-> NoStream, exc |-> e]

\* A slip in the order of lines 371-374: the extension is given up first.
DegradeExtFirst(progressive, ext) ==
    IF ext.kind /= "none"
    THEN [progressive |-> progressive, ext |-> ExtNone, return |-> FALSE]
    ELSE IF progressive
    THEN [progressive |-> FALSE, ext |-> ext, return |-> FALSE]
    ELSE [progressive |-> FALSE, ext |-> ext, return |-> TRUE]

\* What follows an empty filter result (lines 371-376): the next
\* (progressive, ext) pair, or "return" for `return None`.
Degrade(progressive, ext) ==
    IF progressive THEN [progressive |-> FALSE, ext |-> ext, return |-> FALSE]
    ELSE IF ext.kind /= "none"
    THEN [progressive |-> FALSE, ext |-> ExtNone, return |-> FALSE]
    ELSE [progressive |-> FALSE, ext |-> ext, return |-> TRUE]

\* One iteration of the `while True` loop of _get_stream: the function's
\* result, or the (progressive, ext) of the next iteration. Evaluating ext[1:]
\* with ext = None raises TypeError, which leaves the function.
GetStreamIter(all, progressive, ext, resolution) ==
    IF ext.kind = "none"
    THEN [done |-> TRUE, progressive |-> progressive, ext |-> ext,
          result |-> Raised(Exc("TypeError",
                                Msg("'NoneType' object is not subscriptable")))]
    ELSE LET streams == FilterStreams(all, progressive, DropFirst(ext))
             d == Degrade(progressive, ext)
         IN  IF streams /= << >>
             THEN [done |-> TRUE, progressive |-> progressive, ext |-> ext,
                   result |-> Found(SelectByResolution(streams, resolution))]
             ELSE [done |-> d.return, progressive |-> d.progressive,
                   ext |-> d.ext, result |-> NotFound]

\* Lines 352-353: no requested format means MP4 first.
DefaultExt(ext) == IF ext.kind = "none" THEN ExtStr(<<".", "m", "p", "4">>) ELSE ext

\* The loop, run to its end.
RECURSIVE GetStreamLoop(_, _, _, _)
GetStreamLoop(all, progressive, ext, resolution) ==
    LET i == GetStreamIter(all, progressive, ext, resolution)
    IN  IF i.done THEN i.result
        ELSE GetStreamLoop(all, i.progressive, i.ext, resolution)

\* _get_stream(pytube_video, ext, resolution).
GetStream(all, ext, resolution) ==
    GetStreamLoop(all, TRUE, DefaultExt(ext), resolution)

\* ---------------------------------------------------------- _parse_num_workers

\* multiprocessing.cpu_count() of the machine the call runs on.
CpuCount == 2

\* A slip in lines 139-141: the platform is not looked at.
ParseNumWorkersAnyOs(num_workers, use_threads, os_name) ==
    IF num_workers = 0 THEN CpuCount ELSE num_workers

\* _parse_num_workers(num_workers, use_threads); num_workers = 0 encodes None.
ParseNumWorkers(num_workers, use_threads, os_name) ==
    IF num_workers = 0
    THEN IF os_name = "nt" /\ ~use_threads THEN 1 ELSE CpuCount
    ELSE num_workers

\* ------------------------------------------------------------ _build_tasks_list

\* An optional number and a clip segment (first, last); NoClip is None.
NoneNum == [none |-> TRUE, n |-> 0]
Num(n) == [none |-> FALSE, n |-> n]
Clip(first, last) == [none |-> FALSE, first |-> first, last |-> last]
NoClip == [none |-> TRUE, first |-> NoneNum, last |-> NoneNum]

\* A slip in line 179: `<` for `<=`.
NormalizeClipStrict(c) ==
    IF /\ ~c.none
       /\ (c.first.none \/ c.first.n < 0)
       /\ c.last.none
    THEN NoClip
    ELSE c

\* Lines 176-182: a segment asking for the whole video becomes None.
NormalizeClip(c) ==
    IF /\ ~c.none
       /\ (c.first.none \/ c.first.n <= 0)
       /\ c.last.none
    THEN NoClip
    ELSE c

\* A resolution argument: a str, or some value that is no str.
ResStr(s) == [is_str |-> TRUE, s |-> s]
ResOther == [is_str |-> FALSE, s |-> << >>]

DigitChars == <<"0", "1", "2", "3", "4", "5", "6", "7", "8", "9">>
IsDigit(c) == \E d \in 1..10 : DigitChars[d] = c
DigitOf(c) == (CHOOSE d \in 1..10 : DigitChars[d] = c) - 1

\* int(s) of a str of decimal digits.
RECURSIVE ParseInt(_)
ParseInt(s) ==
    IF s = << >> THEN 0
    ELSE 10 * ParseInt(SubSeq(s, 1, Len(s) - 1)) + DigitOf(s[Len(s)])

IsIntLiteral(s) == s /= << >> /\ \A k \in 1..Len(s) : IsDigit(s[k])

EndsWithP(s) == s /= << >> /\ s[Len(s)] = "p"

StrHighest == <<"h", "i", "g", "h", "e", "s", "t">>
StrLowest == <<"l", "o", "w", "e", "s", "t">>

\* A slip in lines 158-161: every str is let through and read as "highest".
ParseResolutionAnyStr(r) ==
    IF ~r.is_str
    THEN [ok |-> FALSE, policy |-> Highest,
          exc |-> Exc("ValueError", Msg("Invalid resolution"))]
    ELSE [ok |-> TRUE, policy |-> Highest, exc |-> NoExc]

\* Lines 158-168: the parsed policy, or the ValueError raised, by line 162 or
\* by int() in line 168.
ParseResolution(r) ==
    IF ~r.is_str \/ (r.s \notin {StrHighest, StrLowest} /\ ~EndsWithP(r.s))
    THEN [ok |-> FALSE, policy |-> Highest,
          exc |-> Exc("ValueError", Msg("Invalid resolution"))]
    ELSE IF EndsWithP(r.s)
    THEN IF IsIntLiteral(SubSeq(r.s, 1, Len(r.s) - 1))
         THEN [ok |-> TRUE, exc |-> NoExc,
               policy |-> Target(ParseInt(SubSeq(r.s, 1, Len(r.s) - 1)))]
         ELSE [ok |-> FALSE, policy |-> Highest,
               exc |-> Exc("ValueError", Msg("invalid literal for int() with base 10"))]
    ELSE [ok |-> TRUE, exc |-> NoExc,
          policy |-> IF r.s = StrLowest THEN Lowest ELSE Highest]

\* _to_list(arg, n): a list is kept, anything else is repeated n times.
ToList(is_list, arg, n) == IF is_list THEN arg ELSE [k \in 1..n |-> arg]

MinOf(S) == CHOOSE m \in S : \A x \in S : m <= x

Task(idx, url, download_dir, video_path, clip_segment, tmp_dir, ext, resolution) ==
    [idx |-> idx, url |-> url, download_dir |-> download_dir,
     video_path |-> video_path, clip_segment |-> clip_segment,
     tmp_dir |-> tmp_dir, ext |-> ext, resolution |-> resolution]

\* A slip in line 191: the indexes counted from 1.
TaskIndexFromOne(k) == k

\* range(num_videos)[k - 1] for the k-th element of the zip.
TaskIndex(k) == k - 1

\* _build_tasks_list: the task list, or the ValueError it raises. video_paths
\* and clip_segments are lists or None (has_paths, has_clips); download_dir,
\* tmp_dir, ext and resolution are scalars.
BuildTasksList(urls, download_dir, has_paths, video_paths, has_clips, clip_segments, tmp_dir, ext, resolution) ==
    LET ext1 == IF has_paths /\ ext /= NoneVal THEN NoneVal ELSE ext
        res == ParseResolution(resolution)
        num_videos == Len(urls)
        clips == IF ~has_clips THEN [k \in 1..num_videos |-> NoClip]
                 ELSE [k \in 1..Len(clip_segments) |-> NormalizeClip(clip_segments[k])]
        paths == ToList(has_paths, IF has_paths THEN video_paths ELSE NoneVal,
                        num_videos)
        n == MinOf({num_videos, Len(clips), Len(paths)})
    IN  IF ~has_paths /\ download_dir = NoneVal
        THEN [ok |-> FALSE, tasks |-> << >>,
              exc |-> Exc("ValueError",
                          Msg("Either download_dir or video_paths are required"))]
        ELSE IF ~res.ok
        THEN [ok |-> FALSE, tasks |-> << >>, exc |-> res.exc]
        ELSE [ok |-> TRUE,
              tasks |-> [k \in 1..n |->
                           Task(TaskIndex(k), urls[k], download_dir, paths[k],
                                clips[k], tmp_dir, ext1, res.policy)],
              exc |-> NoExc]

\* ----------------------------------------------------- the provider's answers

\* What pytube answers for a URL: the exception pytube.YouTube(url) raises (or
\* NoExc), the playability status and messages (a list, msg_list, or a single
\* value, message), the streams, and the exceptions the transfer and the move
\* raise (or NoExc).
Video(ctor, status, msg_list, message, messages, streams, transfer, move) ==
    [ctor |-> ctor, status |-> status, msg_list |-> msg_list,
     message |-> message, messages |-> messages, streams |-> streams,
     transfer |-> transfer, move |-> move]

Playable(streams, transfer) ==
    Video(NoExc, NoneVal, TRUE, NoneVal, << >>, streams, transfer, NoExc)

\* Streams of a container with a one-character name: the only ones line 297
\* lets through, see UnpackExt.
StreamX == Stream("video", <<"x">>, TRUE, 720, <<"t">>)
StreamX2 == Stream("video", <<"x">>, TRUE, 720, <<"s">>)
StreamMp4 == Stream("video", <<"m", "p", "4">>, TRUE, 720, <<"t">>)

\* The URLs of the model and what the provider answers for each.
Provider(url) ==
    CASE url = "ok" -> Playable(<<StreamX>>, NoExc)
      [] url = "gone" ->
            Video(NoExc, Msg("ERROR"), TRUE, NoneVal, <<Msg("Video unavailable")>>,
                  << >>, NoExc, NoExc)
      [] url = "silent" -> Playable(<<StreamX2>>, Exc("TimeoutError", << >>))
      [] url = "mp4" -> Playable(<<StreamMp4>>, NoExc)
      [] url = "broken" -> Playable(<<StreamX>>, Exc("PytubeError", Msg("live")))
      [] url = "live" ->
            Video(NoExc, Msg("LIVE_STREAM"), FALSE, Msg("Video is a live stream."),
                  << >>, <<StreamX>>, NoExc, NoExc)
      [] url = "empty" ->
            Video(NoExc, Msg("UNPLAYABLE"), TRUE, NoneVal, << >>, <<StreamX>>,
                  NoExc, NoExc)
      [] url = "mute" ->
            Video(NoExc, Msg("ERROR"), FALSE, NoneVal, << >>, <<StreamX>>,
                  NoExc, NoExc)
      [] url = "blank" ->
            Video(NoExc, Msg("ERROR"), TRUE, NoneVal, << << >> >>, <<StreamX>>,
                  NoExc, NoExc)
      [] OTHER -> Video(Exc("RegexMatchError", Msg("regex")), NoneVal, TRUE,
                        NoneVal, << >>, << >>, NoExc, NoExc)

\* ---------------------------------------------------------------- _is_playable

IsPlayable(v) ==
    IF v.status = NoneVal THEN NoneVal
    ELSE IF ~v.msg_list THEN v.message
    ELSE IF v.messages /= << >> THEN v.messages[1]
    ELSE v.status

\* ---------------------------------------------------------------- _do_download

\* The tuple _do_download returns.
Outcome(idx, url, video_path, error) ==
    [idx |-> idx, url |-> url, video_path |-> video_path, error |-> error]

\* Lines 321-327: the error an exception is turned into.
CaughtError(e) ==
    IF e.cls \in {"PytubeError", "RegexMatchError"} THEN PytubeErrorClass ELSE e.msg

Failed(task, error) ==
    [done |-> TRUE, out |-> Outcome(task.idx, task.url, NoneVal, error),
     video_path |-> NoneVal, tmp_path |-> NoneVal]

Ready(task, video_path, tmp_path) ==
    [done |-> FALSE, out |-> Outcome(task.idx, task.url, video_path, NoneVal),
     video_path |-> video_path, tmp_path |-> tmp_path]

\* Line 311: the scratch file a video is downloaded to.
TmpPath(tmp_dir, video_path) == Join(tmp_dir, Basename(video_path))

\* Line 297, `root, ext = os.path.splitext(video_path)[1]`: the extension str
\* is unpacked into two names, which needs it to have exactly two characters
\* (".x" gives root "." and ext "x"); any other length raises ValueError.
UnpackExt(e) ==
    IF Len(e) = 2 THEN [ok |-> TRUE, root |-> <<e[1]>>, ext |-> <<e[2]>>]
    ELSE [ok |-> FALSE, root |-> << >>, ext |-> << >>]

\* Lines 290-311 once a stream is selected: the final and the scratch path.
Paths(task, stream) ==
    LET filename == IF task.ext /= NoneVal
                    THEN Splitext(DefaultFilename(stream))[1] \o task.ext
                    ELSE DefaultFilename(stream)
        video_path == IF task.video_path = NoneVal
                      THEN Join(task.download_dir, filename)
                      ELSE task.video_path
        u == UnpackExt(Splitext(video_path)[2])
        stream_ext == Splitext(DefaultFilename(stream))[2]
        final == IF u.ext /= stream_ext THEN u.root \o stream_ext ELSE video_path
    IN  IF task.video_path = NoneVal /\ task.download_dir = NoneVal
        THEN Failed(task, CaughtError(Exc("TypeError", Msg("expected str, not NoneType"))))
        ELSE IF ~u.ok
        THEN Failed(task, CaughtError(Exc("ValueError", Msg("values to unpack (expected 2)"))))
        ELSE Ready(task, final, TmpPath(task.tmp_dir, final))

\* Lines 277-311: everything _do_download does before the transfer; either it
\* has returned an error already, or it is ready to transfer.
Prepare(task) ==
    LET v == Provider(task.url)
        error == IsPlayable(v)
        ext == IF task.video_path /= NoneVal /\ task.ext = NoneVal
               THEN ExtTuple(Splitext(task.video_path))
               ELSE OfOptional(task.ext)
        r == GetStream(v.streams, ext, task.resolution)
    IN  IF v.ctor /= NoExc THEN Failed(task, CaughtError(v.ctor))
        ELSE IF Truthy(error) THEN Failed(task, error)
        ELSE IF r.kind = "raise" THEN Failed(task, CaughtError(r.exc))
        ELSE IF r.kind = "none" THEN Failed(task, Msg("No stream found"))
        ELSE Paths(task, r.stream)

\* ------------------------------------------------------------------ the state

VARIABLES
    args,         \* the arguments of the call and os.name
    pc,           \* "call", "build", "seq", "multi", "returned", "raised"
    use_threads,  \* line 110
    num_workers,  \* line 111
    max_videos,   \* lines 113-114
    tmp_dir,      \* the TempDir of line 116: "none", "exists", "removed"
    tasks,        \* the list _build_tasks_list returned
    job,          \* per task: how far _do_download has got, and its outcome
    cur,          \* _download: the position of the task of this iteration
    outq,         \* _download_multi: the outcomes imap_unordered will yield
    downloaded,   \* the dict of the same name
    errors,       \* the dict of the same name
    pb,           \* the number of pb.update() calls
    scratch,      \* the files under tmp_dir: who writes them, are they whole
    files,        \* the files at final destinations: "complete" or "partial"
    late,         \* the tasks that touched the scratch path after its removal
    ret,          \* how the call ended
    sel           \* a call of _get_stream: its arguments, locals and result

vars == <<args, pc, use_threads, num_workers, max_videos, tmp_dir, tasks, job,
          cur, outq, downloaded, errors, pb, scratch, files, late, ret, sel>>

\* The path etau.TempDir() creates.
TmpDirPath == <<"/", "T">>

DownloadDir == <<"d">>

EmptyMap == << >>

\* d[k] = v of a dict.
Put(d, k, v) == [x \in (DOMAIN d) \cup {k} |-> IF x = k THEN v ELSE d[x]]

Del(d, k) == [x \in (DOMAIN d) \ {k} |-> d[x]]

\* A task nobody has taken up yet; runs counts the calls of _do_download.
NewJob == [st |-> "todo", out |-> Outcome(0, "", NoneVal, NoneVal),
           video_path |-> NoneVal, tmp_path |-> NoneVal, clip |-> FALSE,
           runs |-> 0]

\* ------------------------------------------------------------------ the inputs

\* The URLs a call may name, see Provider.
Urls == {"ok", "gone", "silent", "mp4"}

SeqsUpTo(S, n) == UNION {[1..k -> S] : k \in 0..n}

ExplicitPath(k) == <<"p", "/", DigitChars[k + 1], ".", "x">>

ClipChoices == {NoClip, Clip(Num(0), NoneNum), Clip(Num(5), NoneNum)}

ResolutionChoices == {ResStr(StrHighest), ResStr(<<"7", "2", "0", "p">>),
                      ResStr(<<"b", "e", "s", "t">>), ResOther}

\* The calls of download_youtube_videos. video_paths and clip_segments, when
\* given, are lists as long as urls; num_workers = 0 encodes None.
Args ==
    {a \in [urls : SeqsUpTo(Urls, MaxVideos),
            download_dir : {NoneVal, DownloadDir},
            has_paths : BOOLEAN,
            has_clips : BOOLEAN,
            clip : ClipChoices,
            ext : {NoneVal, <<".", "x">>},
            resolution : ResolutionChoices,
            max_videos : {NoneNum} \cup {Num(n) : n \in 0..MaxVideos},
            num_workers : 0..2,
            skip_failures : BOOLEAN,
            os_name : {"posix", "nt"}] :
        \* one of download_dir and video_paths, or neither
        /\ ~(a.has_paths /\ a.download_dir /= NoneVal)
        \* arguments that are not read are not varied
        /\ ~a.has_clips => a.clip = NoClip
        /\ (a.num_workers /= 0 \/ ~a.has_clips) => a.os_name = "posix"}

VideoPaths(a) == [k \in 1..Len(a.urls) |-> ExplicitPath(k)]

ClipSegments(a) == [k \in 1..Len(a.urls) |-> a.clip]

\* No call of _get_stream is followed on its own.
NoSel == [pc |-> "none", streams |-> << >>, resolution |-> Highest,
          arg_ext |-> ExtNone, progressive |-> TRUE, ext |-> ExtNone,
          result |-> NotFound]

Init ==
    /\ args \in Args
    /\ pc = "call"
    /\ sel = NoSel
    /\ use_threads = FALSE
    /\ num_workers = 0
    /\ max_videos = 0
    /\ tmp_dir = "none"
    /\ tasks = << >>
    /\ job = << >>
    /\ cur = 0
    /\ outq = << >>
    /\ downloaded = EmptyMap
    /\ errors = EmptyMap
    /\ pb = 0
    /\ scratch = EmptyMap
    /\ files = EmptyMap
    /\ late = {}
    /\ ret = [kind |-> "none", exc |-> NoExc]

\* ------------------------------------------------- _download / _download_multi

\* A slip in line 225: `>` for `>=`.
QuotaExceeded(d, quota) == Cardinality(DOMAIN d) > quota

\* Line 225 (and 258): `len(downloaded) >= max_videos`.
QuotaMet(d, quota) == Cardinality(DOMAIN d) >= quota

\* A slip in lines 214-224: no `else`, a recorded error falls through to the
\* success branch.
RecordFallThrough(d, e, n, out, quota, skip_failures) ==
    LET e1 == IF Truthy(out.error) THEN Put(e, out.idx, out.error) ELSE e
        d1 == Put(d, out.idx, out.video_path)
    IN  IF Truthy(out.error) /\ ~skip_failures
        THEN [downloaded |-> d, errors |-> e, pb |-> n, next |-> "raise"]
        ELSE [downloaded |-> d1, errors |-> e1, pb |-> n + 1,
              next |-> IF QuotaMet(d1, quota) THEN "return" ELSE "continue"]

\* Lines 214-226 (and 247-259): what the loop body does with one outcome:
\* the dicts and the progress count after it, and how the loop goes on.
Record(d, e, n, out, quota, skip_failures) ==
    IF Truthy(out.error)
    THEN IF ~skip_failures
         THEN [downloaded |-> d, errors |-> e, pb |-> n, next |-> "raise"]
         ELSE [downloaded |-> d, errors |-> Put(e, out.idx, out.error), pb |-> n,
               next |-> "continue"]
    ELSE LET d1 == Put(d, out.idx, out.video_path)
         IN  [downloaded |-> d1, errors |-> e, pb |-> n + 1,
              next |-> IF QuotaMet(d1, quota) THEN "return" ELSE "continue"]

\* The ValueError of lines 216-219.
DownloadError(out) == Exc("ValueError", Msg("Failed to download video") \o out.error)

\* A slip in lines 116-134: the directory is removed after the `with` body
\* only, not when an exception leaves it.
ExitTempDirOnReturn(how) == IF how = "return" THEN "removed" ELSE "exists"

\* Leaving `with etau.TempDir() as tmp_dir` by a return or by an exception:
\* the directory is removed.
ExitTempDir(how) == "removed"

\* Leaving `with pool_cls(num_workers) as pool` terminates the pool: worker
\* processes are killed, worker threads are left to finish their task.
TerminatePool(j) ==
    [k \in DOMAIN j |->
        IF ~use_threads /\ j[k].st \in {"ready", "writing", "written"}
        THEN [j[k] EXCEPT !.st = "killed"]
        ELSE j[k]]

\* The call ends (how = "return" or "raise") from within the loop.
Leave(how, exc, j) ==
    /\ pc' = IF how = "return" THEN "returned" ELSE "raised"
    /\ ret' = [kind |-> how, exc |-> exc]
    /\ tmp_dir' = ExitTempDir(how)
    /\ scratch' = EmptyMap
    /\ job' = IF pc = "multi" THEN TerminatePool(j) ELSE j

\* A slip in line 110: threads whatever the clip segments.
UseThreadsAlways(has_clips) == TRUE

\* Line 110, `use_threads = clip_segments is None`.
UseThreads(has_clips) == ~has_clips

\* Lines 110-116: the locals, and the scratch directory is created.
Enter ==
    /\ pc = "call"
    /\ use_threads' = UseThreads(args.has_clips)
    /\ num_workers' = ParseNumWorkers(args.num_workers, UseThreads(args.has_clips),
                                      args.os_name)
    /\ max_videos' = IF args.max_videos.none THEN Len(args.urls) ELSE args.max_videos.n
    /\ tmp_dir' = "exists"
    /\ pc' = "build"
    /\ UNCHANGED <<sel, args, tasks, job, cur, outq, downloaded, errors, pb, scratch,
                   files, late, ret>>

\* Lines 117-132: the tasks are built, or the ValueError leaves the call.
Build ==
    /\ pc = "build"
    /\ LET b == BuildTasksList(args.urls, args.download_dir, args.has_paths,
                               VideoPaths(args), args.has_clips,
                               ClipSegments(args), TmpDirPath, args.ext,
                               args.resolution)
       IN  IF b.ok
           THEN /\ tasks' = b.tasks
                /\ job' = [k \in 1..Len(b.tasks) |-> NewJob]
                /\ pc' = IF num_workers <= 1 THEN "seq" ELSE "multi"
                /\ UNCHANGED <<tmp_dir, scratch, ret>>
           ELSE /\ Leave("raise", b.exc, job)
                /\ UNCHANGED tasks
    /\ UNCHANGED <<sel, args, use_threads, num_workers, max_videos, cur, outq,
                   downloaded, errors, pb, files, late>>

\* One outcome reaches the loop body.
Collect(out, j) ==
    LET r == Record(downloaded, errors, pb, out, max_videos, args.skip_failures)
    IN  /\ downloaded' = r.downloaded
        /\ errors' = r.errors
        /\ pb' = r.pb
        /\ IF r.next = "continue"
           THEN /\ job' = j
                /\ UNCHANGED <<pc, ret, tmp_dir, scratch>>
           ELSE Leave(r.next, IF r.next = "raise" THEN DownloadError(out) ELSE NoExc, j)

\* _download, lines 213-226: the outcome of the task of this iteration.
Download ==
    /\ pc = "seq"
    /\ cur >= 1
    /\ job[cur].st = "done"
    /\ Collect(job[cur].out, [job EXCEPT ![cur].st = "collected"])
    /\ UNCHANGED <<sel, args, use_threads, num_workers, max_videos, tasks, cur, outq,
                   files, late>>

\* _download, line 228: the tasks are exhausted.
DownloadEnd ==
    /\ pc = "seq"
    /\ cur = Len(tasks)
    /\ IF cur = 0 THEN TRUE ELSE job[cur].st = "collected"
    /\ Leave("return", NoExc, job)
    /\ UNCHANGED <<sel, args, use_threads, num_workers, max_videos, tasks, cur, outq,
                   downloaded, errors, pb, files, late>>

\* _download_multi, lines 244-259: the next outcome imap_unordered yields.
DownloadMulti ==
    /\ pc = "multi"
    /\ outq /= << >>
    /\ outq' = Tail(outq)
    /\ Collect(Head(outq), [job EXCEPT ![Head(outq).idx + 1].st = "collected"])
    /\ UNCHANGED <<sel, args, use_threads, num_workers, max_videos, tasks, cur,
                   files, late>>

\* _download_multi, line 261: every task's outcome has been yielded.
DownloadMultiEnd ==
    /\ pc = "multi"
    /\ \A k \in DOMAIN job : job[k].st = "collected"
    /\ Leave("return", NoExc, job)
    /\ UNCHANGED <<sel, args, use_threads, num_workers, max_videos, tasks, cur, outq,
                   downloaded, errors, pb, files, late>>

\* ------------------------------------------------- _do_download, step by step

Busy == {k \in DOMAIN job : job[k].st \in {"ready", "writing", "written"}}

\* The task a sequential run or a pool worker executes next: _download takes
\* the tasks in order, one per iteration; the pool hands the tasks out in
\* order to at most num_workers workers at a time.
MayStart(k) ==
    /\ k \in DOMAIN job
    /\ job[k].st = "todo"
    /\ \/ /\ pc = "seq"
          /\ k = cur + 1
          /\ IF cur = 0 THEN TRUE ELSE job[cur].st = "collected"
       \/ /\ pc = "multi"
          /\ \A i \in 1..(k - 1) : job[i].st /= "todo"
          /\ Cardinality(Busy) < num_workers

\* _do_download has returned `out` for task k. A pool worker's outcome is
\* queued for imap_unordered as long as the pool is in use.
Return(k, out, j) ==
    /\ job' = [j EXCEPT ![k].st = "done", ![k].out = out,
                        ![k].runs = IF j[k].st = "todo" THEN @ + 1 ELSE @]
    /\ outq' = IF pc = "multi" THEN Append(outq, out) ELSE outq

Caught(k, exc, j) ==
    Return(k, Outcome(tasks[k].idx, tasks[k].url, NoneVal, CaughtError(exc)), j)

\* Lines 264-311: the task is taken up; playability, stream and paths.
Start(k) ==
    /\ MayStart(k)
    /\ LET p == Prepare(tasks[k])
       IN  IF p.done
           THEN Return(k, p.out, job)
           ELSE /\ job' = [job EXCEPT ![k] =
                             [st |-> "ready", out |-> p.out,
                              video_path |-> p.video_path,
                              tmp_path |-> p.tmp_path,
                              clip |-> ~tasks[k].clip_segment.none,
                              runs |-> job[k].runs + 1]]
                /\ UNCHANGED outq
    /\ cur' = IF pc = "seq" THEN k ELSE cur
    /\ UNCHANGED <<sel, args, pc, use_threads, num_workers, max_videos, tmp_dir, tasks,
                   downloaded, errors, pb, scratch, files, late, ret>>

\* Lines 313-316, first half: _download_video or _download_clip opens the
\* scratch file for writing. With the scratch directory already removed, the
\* write either fails or creates the path anew.
TransferBegin(k) ==
    /\ k \in DOMAIN job
    /\ job[k].st = "ready"
    /\ LET f == job[k].tmp_path
           writers == IF f \in DOMAIN scratch THEN scratch[f].writers ELSE {}
           open == /\ scratch' = Put(scratch, f,
                                     [writers |-> writers \cup {k}, whole |-> FALSE])
                   /\ job' = [job EXCEPT ![k].st = "writing"]
                   /\ UNCHANGED outq
       IN  IF tmp_dir = "exists"
           THEN open /\ UNCHANGED late
           ELSE \/ open /\ late' = late \cup {k}
                \/ /\ Caught(k, Exc("FileNotFoundError", Msg("No such file or directory")), job)
                   /\ UNCHANGED <<scratch, late>>
    /\ UNCHANGED <<sel, args, pc, use_threads, num_workers, max_videos, tmp_dir, tasks,
                   cur, downloaded, errors, pb, files, ret>>

\* Lines 313-316, second half: the transfer returns, or raises what the
\* provider's transfer raises.
TransferEnd(k) ==
    /\ k \in DOMAIN job
    /\ job[k].st = "writing"
    /\ LET f == job[k].tmp_path
           v == Provider(tasks[k].url)
           left == IF f \in DOMAIN scratch THEN scratch[f].writers \ {k} ELSE {}
       IN  /\ scratch' = IF f \in DOMAIN scratch
                         THEN Put(scratch, f,
                                  [writers |-> left,
                                   whole |-> v.transfer = NoExc /\ left = {}])
                         ELSE scratch
           /\ IF v.transfer = NoExc
              THEN /\ job' = [job EXCEPT ![k].st = "written"]
                   /\ UNCHANGED outq
              ELSE Caught(k, v.transfer, job)
    /\ late' = IF tmp_dir = "removed" THEN late \cup {k} ELSE late
    /\ UNCHANGED <<sel, args, pc, use_threads, num_workers, max_videos, tmp_dir, tasks,
                   cur, downloaded, errors, pb, files, ret>>

\* Lines 318-320: etau.move_file(tmp_path, video_path), then the success
\* outcome. The file that arrives is whole unless it is still being written.
Move(k) ==
    /\ k \in DOMAIN job
    /\ job[k].st = "written"
    /\ LET f == job[k].tmp_path
           v == Provider(tasks[k].url)
       IN  IF f \notin DOMAIN scratch
           THEN /\ Caught(k, Exc("FileNotFoundError", Msg("No such file or directory")), job)
                /\ UNCHANGED <<scratch, files>>
           ELSE IF v.move /= NoExc
           THEN /\ Caught(k, v.move, job)
                /\ UNCHANGED <<scratch, files>>
           ELSE /\ files' = Put(files, job[k].video_path,
                                IF scratch[f].whole THEN "complete" ELSE "partial")
                /\ scratch' = Del(scratch, f)
                /\ Return(k, job[k].out, job)
    /\ late' = IF tmp_dir = "removed" THEN late \cup {k} ELSE late
    /\ UNCHANGED <<sel, args, pc, use_threads, num_workers, max_videos, tmp_dir, tasks,
                   cur, downloaded, errors, pb, ret>>

Next ==
    \/ Enter
    \/ Build
    \/ \E k \in 1..MaxVideos : Start(k)
    \/ \E k \in 1..MaxVideos : TransferBegin(k)
    \/ \E k \in 1..MaxVideos : TransferEnd(k)
    \/ \E k \in 1..MaxVideos : Move(k)
    \/ Download
    \/ DownloadEnd
    \/ DownloadMulti
    \/ DownloadMultiEnd

Spec == Init /\ [][Next]_vars

\* ------------------------------------------------------- calls with one URL

\* Every answer of the provider, see Provider ("nope" is no video URL).
UrlsOne == Urls \cup {"broken", "live", "empty", "mute", "blank", "nope"}

ClipChoicesOne ==
    ClipChoices \cup {Clip(NoneNum, NoneNum), Clip(Num(-1), NoneNum),
                      Clip(NoneNum, Num(3)), Clip(Num(0), Num(3)),
                      Clip(Num(5), Num(9))}

ResolutionChoicesOne == ResolutionChoices \cup {ResStr(<<"h", "p">>)}

\* The calls of download_youtube_videos with a single URL, max_videos left at
\* its default, on either platform.
ArgsOne ==
    {a \in [urls : [1..1 -> UrlsOne],
            download_dir : {NoneVal, DownloadDir},
            has_paths : BOOLEAN,
            has_clips : BOOLEAN,
            clip : ClipChoicesOne,
            ext : {NoneVal, <<".", "x">>},
            resolution : ResolutionChoicesOne,
            max_videos : {NoneNum},
            num_workers : 0..2,
            skip_failures : BOOLEAN,
            os_name : {"posix", "nt"}] :
        /\ ~(a.has_paths /\ a.download_dir /= NoneVal)
        /\ ~a.has_clips => a.clip = NoClip}

InitOne ==
    /\ args \in ArgsOne
    /\ pc = "call"
    /\ sel = NoSel
    /\ use_threads = FALSE
    /\ num_workers = 0
    /\ max_videos = 0
    /\ tmp_dir = "none"
    /\ tasks = << >>
    /\ job = << >>
    /\ cur = 0
    /\ outq = << >>
    /\ downloaded = EmptyMap
    /\ errors = EmptyMap
    /\ pb = 0
    /\ scratch = EmptyMap
    /\ files = EmptyMap
    /\ late = {}
    /\ ret = [kind |-> "none", exc |-> NoExc]

SpecOne == InitOne /\ [][Next]_vars

\* ------------------------------------------------------------------ the claims

Keys(d) == DOMAIN d

Indexes == 0..(Len(args.urls) - 1)

\* The tasks _do_download was called for (1-based positions in tasks).
Attempted == {k \in DOMAIN job : job[k].st /= "todo"}

Sequential == pc \in {"seq", "returned", "raised"} /\ num_workers <= 1

Parallel == pc \in {"multi", "returned", "raised"} /\ num_workers >= 2

\* Every value of downloaded is the path of a published file.
OnlyPublished == \A i \in Keys(downloaded) : downloaded[i] /= NoneVal

\* C1: for every quota >= 0, in both modes, the returned downloaded dict has
\* at most quota entries and the progress bar was updated at most quota times
\* (stated for the runs whose successes all are published files).
C1_QuotaCap ==
    (pc = "returned" /\ OnlyPublished) =>
        /\ Cardinality(Keys(downloaded)) <= max_videos
        /\ pb <= max_videos

\* The part of C1 the code keeps: a quota of at least 1 is never exceeded.
C1_PositiveQuotaCap ==
    (pc = "returned" /\ max_videos >= 1) =>
        /\ Cardinality(Keys(downloaded)) <= max_videos
        /\ pb <= max_videos

\* C2: a sequential run executes the tasks one at a time in the builder's
\* order and starts none after the quota-th success: when no attempted task
\* failed and 1 <= quota <= n, exactly the tasks 0..quota-1 were attempted and
\* they are the keys of downloaded.
C2_SequentialPrefix ==
    Sequential =>
        /\ Attempted = 1..Cardinality(Attempted)
        /\ Cardinality({k \in Attempted : job[k].st /= "collected"}) <= 1
        /\ (max_videos >= 1 /\ Cardinality(Keys(downloaded)) >= max_videos)
           => pc = "returned"
        /\ (/\ pc = "returned"
            /\ errors = EmptyMap
            /\ 1 <= max_videos
            /\ max_videos <= Len(tasks))
           => /\ Keys(downloaded) = 0..(max_videos - 1)
              /\ Attempted = 1..max_videos

C2_Witness ==
    /\ Sequential
    /\ pc = "returned"
    /\ errors = EmptyMap
    /\ max_videos = 1
    /\ Len(tasks) = 2
    /\ Keys(downloaded) = {0}
    /\ job[2].st = "todo"

\* C3: in every state of a run, no index is a key of both downloaded and
\* errors, and every key of either is an index into urls.
C3_DisjointKeys ==
    /\ Keys(downloaded) \cap Keys(errors) = {}
    /\ Keys(downloaded) \subseteq Indexes
    /\ Keys(errors) \subseteq Indexes

C3_Witness ==
    /\ Parallel
    /\ pc = "returned"
    /\ Keys(downloaded) /= {}
    /\ Keys(errors) /= {}

\* C4: one task per URL, its index its 0-based position, each executed at
\* most once; a tolerant run that returns short of the quota has every index
\* in exactly one of the two dicts; and with quota = len(urls) and no
\* failure, downloaded has len(urls) entries.
C4_OneTaskPerUrl ==
    pc \in {"seq", "multi", "returned"} =>
        /\ Len(tasks) = Len(args.urls)
        /\ \A k \in DOMAIN tasks :
              /\ tasks[k].idx = k - 1
              /\ tasks[k].url = args.urls[k]
              /\ job[k].runs <= 1
        /\ (/\ pc = "returned"
            /\ args.skip_failures
            /\ Cardinality(Keys(downloaded)) < max_videos)
           => /\ Keys(downloaded) \cup Keys(errors) = Indexes
              /\ Keys(downloaded) \cap Keys(errors) = {}
        /\ (pc = "returned" /\ max_videos = Len(args.urls) /\ errors = EmptyMap)
           => Cardinality(Keys(downloaded)) = Len(args.urls)

C4_Witness ==
    /\ pc = "returned"
    /\ args.skip_failures
    /\ Len(args.urls) = 2
    /\ Cardinality(Keys(downloaded)) < max_videos
    /\ Keys(downloaded) /= {}
    /\ Keys(errors) /= {}

\* An executor that published no file failed: it returned an error, or its
\* exception was caught.
ExecutorFailed(k) == job[k].out.video_path = NoneVal

\* C5: in intolerant mode the first failure that reaches the loop body ends
\* the run by raising: errors stays empty, nothing is returned, and a
\* sequential run attempts no task after the failing one (stated for a quota
\* of at least 1).
C5_IntolerantRaises ==
    (~args.skip_failures /\ max_videos >= 1) =>
        /\ errors = EmptyMap
        /\ \A k \in DOMAIN job :
              (job[k].st = "collected" /\ ExecutorFailed(k)) =>
                  /\ pc = "raised"
                  /\ Sequential => Attempted = 1..k

\* The part of C5 the code keeps: a truthy error raises.
C5_TruthyErrorRaises ==
    ~args.skip_failures =>
        /\ errors = EmptyMap
        /\ \A k \in DOMAIN job :
              (job[k].st = "collected" /\ Truthy(job[k].out.error)) =>
                  /\ pc = "raised"
                  /\ Sequential => Attempted = 1..k

\* C6: a final destination never holds a partially written file.
C6_NoPartialFinal == \A f \in DOMAIN files : files[f] = "complete"

\* The part of C6 the code keeps: a sequential run publishes whole files only.
C6_SequentialNoPartialFinal ==
    Sequential => \A f \in DOMAIN files : files[f] = "complete"

\* C7: every outcome of _do_download has exactly one of video_path and error
\* populated (as the loop body reads them: `if error:`).
C7_ExactlyOne ==
    \A k \in DOMAIN job :
        job[k].st \in {"done", "collected"} =>
            (job[k].out.video_path /= NoneVal) /= Truthy(job[k].out.error)

\* C8: on every exit path the scratch directory that was created has been
\* removed when the call returns or raises.
C8_ScratchRemoved == pc \in {"returned", "raised"} => tmp_dir = "removed"

C8_Witness ==
    /\ pc = "returned"
    /\ tmp_dir = "removed"
    /\ \E k \in DOMAIN job : job[k].st = "todo"

\* C9: two distinct tasks of a run never use the same scratch file.
C9_DistinctScratch ==
    \A j, k \in DOMAIN job :
        (j /= k /\ job[j].tmp_path /= NoneVal /\ job[k].tmp_path /= NoneVal)
            => job[j].tmp_path /= job[k].tmp_path

\* -------------------------------------------------- _get_stream, step by step

\* The most streams the provider offers for one video.
MaxStreams == 3

Mp4 == <<"m", "p", "4">>
Webm == <<"w", "e", "b", "m">>

StreamChoices ==
    {Stream("video", Mp4, TRUE, 480, <<"a">>),
     Stream("video", Mp4, TRUE, 720, <<"b">>),
     Stream("video", Mp4, TRUE, 1080, <<"c">>),
     Stream("video", Mp4, FALSE, 1080, <<"d">>),
     Stream("video", Webm, TRUE, 720, <<"e">>),
     Stream("video", Webm, FALSE, 480, <<"f">>),
     Stream("audio", Mp4, FALSE, 0, <<"g">>)}

ExtChoices ==
    {ExtNone, ExtStr(<<".">> \o Mp4), ExtStr(<<".">> \o Webm),
     ExtTuple(<<<<"v">>, <<".">> \o Mp4>>)}

PolicyChoices == {Highest, Lowest, Target(900), Target(600)}

\* The call of download_youtube_videos is not followed.
NoRun ==
    /\ args = << >>
    /\ pc = "none"
    /\ use_threads = FALSE
    /\ num_workers = 0
    /\ max_videos = 0
    /\ tmp_dir = "none"
    /\ tasks = << >>
    /\ job = << >>
    /\ cur = 0
    /\ outq = << >>
    /\ downloaded = EmptyMap
    /\ errors = EmptyMap
    /\ pb = 0
    /\ scratch = EmptyMap
    /\ files = EmptyMap
    /\ late = {}
    /\ ret = [kind |-> "none", exc |-> NoExc]

SelInit ==
    /\ NoRun
    /\ \E s \in SeqsUpTo(StreamChoices, MaxStreams), e \in ExtChoices,
          r \in PolicyChoices :
          sel = [pc |-> "call", streams |-> s, resolution |-> r,
                 arg_ext |-> e, progressive |-> TRUE, ext |-> e,
                 result |-> NotFound]

\* Lines 349-353: progressive = True, and the default format.
SelEnter ==
    /\ sel.pc = "call"
    /\ sel' = [sel EXCEPT !.pc = "loop", !.progressive = TRUE,
                          !.ext = DefaultExt(sel.ext)]
    /\ UNCHANGED <<args, pc, use_threads, num_workers, max_videos, tmp_dir, tasks,
                   job, cur, outq, downloaded, errors, pb, scratch, files, late,
                   ret>>

\* Lines 355-376: one iteration of the loop.
SelIter ==
    /\ sel.pc = "loop"
    /\ LET i == GetStreamIter(sel.streams, sel.progressive, sel.ext, sel.resolution)
       IN  sel' = [sel EXCEPT
                     !.pc = IF ~i.done THEN "loop"
                            ELSE IF i.result.kind = "raise" THEN "raised"
                            ELSE "returned",
                     !.progressive = i.progressive,
                     !.ext = i.ext,
                     !.result = i.result]
    /\ UNCHANGED <<args, pc, use_threads, num_workers, max_videos, tmp_dir, tasks,
                   job, cur, outq, downloaded, errors, pb, scratch, files, late,
                   ret>>

SelNext == SelEnter \/ SelIter

SpecSelect == SelInit /\ [][SelNext]_vars

\* The video streams of a call's candidates with the given subtype.
WithSubtype(subtype) ==
    {k \in DOMAIN sel.streams :
        sel.streams[k].type = "video" /\ sel.streams[k].subtype = subtype}

Progressives == {k \in DOMAIN sel.streams : sel.streams[k].progressive}

\* C10: the selector degrades in a fixed order and selects from the first
\* non-empty combination: a progressive stream of the desired extension when
\* there is one; and when there is none but some stream has the desired
\* extension, a stream of the desired extension.
C10_ExtensionBeforeProgressive ==
    \A subtype \in {Mp4, Webm} :
        (/\ sel.pc \in {"returned", "raised"}
         /\ DefaultExt(sel.arg_ext) = ExtStr(<<".">> \o subtype)
         /\ WithSubtype(subtype) /= {})
        => /\ sel.pc = "returned"
           /\ sel.result.kind = "stream"
           /\ \E k \in WithSubtype(subtype) : sel.result.stream = sel.streams[k]
           /\ sel.result.stream.progressive
                <=> (WithSubtype(subtype) \cap Progressives /= {})

\* Only non-progressive mp4 and progressive webm candidates, mp4 desired: the
\* non-progressive mp4 stream is selected.
C10_Witness ==
    /\ sel.pc = "returned"
    /\ sel.arg_ext = ExtStr(<<".">> \o Mp4)
    /\ WithSubtype(Mp4) /= {}
    /\ WithSubtype(Mp4) \cap Progressives = {}
    /\ WithSubtype(Webm) \cap Progressives /= {}
    /\ sel.result.kind = "stream"
    /\ sel.result.stream.subtype = Mp4
    /\ ~sel.result.stream.progressive

\* The video streams among a call's candidates.
VideoStreams == {k \in DOMAIN sel.streams : sel.streams[k].type = "video"}

\* C11: for an extension that is None or a str, the selector returns (it does
\* not raise); it returns a video stream of the candidates whenever there is
\* one, also when none has the desired extension; and it returns None exactly
\* when there is no video stream at all.
C11_FallbackReturns ==
    (sel.pc \in {"returned", "raised"} /\ sel.arg_ext.kind \in {"none", "str"}) =>
        /\ sel.pc = "returned"
        /\ (sel.result.kind = "stream") <=> (VideoStreams /= {})
        /\ (sel.result.kind = "none") <=> (VideoStreams = {})
        /\ sel.result.kind = "stream" =>
              \E k \in VideoStreams : sel.result.stream = sel.streams[k]

\* The part of C11 the code keeps: the loop goes through at most three
\* (progressive, ext) pairs, and a stream that is returned is a video stream
\* of the candidates.
C11_ReturnedIsCandidate ==
    /\ sel.pc = "loop" =>
          \/ sel.progressive /\ sel.ext = DefaultExt(sel.arg_ext)
          \/ ~sel.progressive /\ sel.ext = DefaultExt(sel.arg_ext)
          \/ ~sel.progressive /\ sel.ext = ExtNone
    /\ (sel.pc = "returned" /\ sel.result.kind = "stream") =>
          \E k \in VideoStreams : sel.result.stream = sel.streams[k]

\* The streams the selection is made from when the selector returns: the
\* result of the filter of the last iteration.
Candidates == FilterStreams(sel.streams, sel.progressive, DropFirst(sel.ext))

\* C14: with an integer target, the selected stream is a candidate whose
\* resolution is nearest to the target, and no candidate before it in the
\* candidate ordering is as near.
C14_NearestFirst ==
    (sel.pc = "returned" /\ sel.result.kind = "stream" /\ sel.resolution.kind = "num") =>
        \E i \in 1..Len(Candidates) :
            /\ Candidates[i] = sel.result.stream
            /\ \A j \in 1..Len(Candidates) :
                  Abs(Candidates[i].res - sel.resolution.n)
                      <= Abs(Candidates[j].res - sel.resolution.n)
            /\ \A j \in 1..(i - 1) :
                  Abs(Candidates[j].res - sel.resolution.n)
                      > Abs(Candidates[i].res - sel.resolution.n)

\* Candidates [480, 720, 1080] with target 900: 720 and 1080 are equally near,
\* 720 comes first and is selected.
C14_Witness ==
    /\ sel.pc = "returned"
    /\ sel.resolution = Target(900)
    /\ Len(Candidates) = 3
    /\ Candidates[1].res = 480
    /\ Candidates[2].res = 720
    /\ Candidates[3].res = 1080
    /\ sel.result.kind = "stream"
    /\ sel.result.stream.res = 720

\* ------------------------------------------------ claims on calls with one URL

\* The executor of task k has returned.
Finished(k) == job[k].st \in {"done", "collected"}

\* The provider raises nothing for the video and reports it playable.
Sound(v) ==
    /\ v.ctor = NoExc
    /\ v.status = NoneVal
    /\ v.transfer = NoExc
    /\ v.move = NoExc

\* The final path task k asks for when stream s is the one selected: the
\* explicit path, or download_dir/<title><ext>.
WantedPath(k, s) ==
    IF tasks[k].video_path /= NoneVal THEN tasks[k].video_path
    ELSE Join(tasks[k].download_dir, s.title \o tasks[k].ext)

\* C12: a task with an explicit path or a preferred extension, for a sound
\* video whose only stream has another extension, ends in a success outcome
\* whose path is the wanted path with the extension replaced by the stream's.
C12_MismatchRewritten ==
    \A k \in DOMAIN job :
        LET v == Provider(tasks[k].url)
            s == v.streams[1]
        IN  (/\ Finished(k)
             /\ Sound(v)
             /\ Len(v.streams) = 1
             /\ tasks[k].video_path /= NoneVal \/ tasks[k].ext /= NoneVal
             /\ Splitext(WantedPath(k, s))[2] /= <<".">> \o s.subtype)
            => /\ ~Truthy(job[k].out.error)
               /\ job[k].out.video_path
                     = Splitext(WantedPath(k, s))[1] \o <<".">> \o s.subtype

\* The clip segment the caller gave for task k (None without clip_segments).
GivenClip(k) == IF args.has_clips THEN ClipSegments(args)[k] ELSE NoClip

\* A segment that asks for the whole video: None, or no end and a start that
\* is absent or <= 0.
WholeVideo(c) == c.none \/ (c.last.none /\ (c.first.none \/ c.first.n <= 0))

\* The transfer of task k has been called.
Transferring(k) == job[k].st \in {"writing", "written"}

\* C13: a task's clip segment is None exactly when the given segment asks for
\* the whole video, and is the given segment otherwise; a task is executed by
\* clip extraction exactly when its given segment does not ask for the whole
\* video.
C13_ClipNormalization ==
    \A k \in DOMAIN tasks :
        /\ WholeVideo(GivenClip(k)) => tasks[k].clip_segment = NoClip
        /\ ~WholeVideo(GivenClip(k)) =>
              /\ tasks[k].clip_segment = GivenClip(k)
              /\ tasks[k].clip_segment /= NoClip
        /\ Transferring(k) => job[k].clip = ~WholeVideo(GivenClip(k))

\* The segment (0, None) was given and the video was transferred whole.
C13_Witness ==
    /\ args.has_clips
    /\ args.clip = Clip(Num(0), NoneNum)
    /\ job /= << >>
    /\ job[1].st = "written"
    /\ ~job[1].clip

\* The resolution argument is none of "highest", "lowest" and "<int>p".
InvalidResolution ==
    args.resolution \in {ResOther, ResStr(<<"b", "e", "s", "t">>), ResStr(<<"h", "p">>)}

NoDestination == args.download_dir = NoneVal /\ ~args.has_paths

\* C15: with neither download_dir nor video_paths, or with an invalid
\* resolution, the call raises ValueError out of the builder: no task was
\* built or executed, nothing was transferred or published, whatever
\* skip_failures is.
C15_ConfigErrorFirst ==
    (NoDestination \/ InvalidResolution) =>
        /\ job = << >>
        /\ tasks = << >>
        /\ scratch = EmptyMap
        /\ files = EmptyMap
        /\ downloaded = EmptyMap
        /\ errors = EmptyMap
        /\ pc \in {"call", "build", "raised"}
        /\ pc = "raised" => ret.exc.cls = "ValueError"

C15_Witness ==
    /\ pc = "raised"
    /\ InvalidResolution
    /\ ~NoDestination
    /\ args.skip_failures
    /\ Provider(args.urls[1]) = Provider("ok")

\* No task of the batch has a clip segment (after the builder's normalization).
NoClipRequested == \A k \in DOMAIN tasks : tasks[k].clip_segment = NoClip

\* C16: a pool is a thread pool exactly when no task of the batch has a clip
\* segment after normalization, and a process pool otherwise.
C16_ThreadsIffNoClip == pc = "multi" => (use_threads <=> NoClipRequested)

\* C16 as amended: a pool is a thread pool exactly when the clip_segments
\* argument is None, and a process pool whenever a list is given, also when
\* no entry of the list is left as a clip by the normalization.
C16_ThreadsIffNoSegments == pc = "multi" => (use_threads <=> ~args.has_clips)

\* A list of segments that all ask for the whole video: a process pool.
C16_Witness ==
    /\ pc = "multi"
    /\ args.has_clips
    /\ NoClipRequested
    /\ ~use_threads
    /\ job[1].st = "writing"

\* Process workers would be used on Windows.
WindowsProcesses == args.os_name = "nt" /\ args.has_clips

\* C17: on Windows, whenever process workers would be used, the run is
\* sequential with one worker, whatever num_workers was asked for.
C17_WindowsSequential ==
    (WindowsProcesses /\ pc /= "call") => (num_workers = 1 /\ pc /= "multi")

\* C17 as amended: on Windows, when process workers would be used, the run
\* is sequential with one worker if num_workers is None; a num_workers that
\* was given is used as given, and a value above 1 runs a process pool.
C17_WindowsDefaultSequential ==
    (WindowsProcesses /\ pc /= "call") =>
        /\ args.num_workers = 0 => (num_workers = 1 /\ pc /= "multi")
        /\ args.num_workers /= 0 => num_workers = args.num_workers
        /\ pc = "multi" => (args.num_workers >= 2 /\ ~use_threads)

\* Windows, clip segments, num_workers None: the task runs in _download.
C17_Witness ==
    /\ WindowsProcesses
    /\ args.num_workers = 0
    /\ pc = "seq"
    /\ job[1].st = "writing"
    /\ job[1].clip

\* The reason the provider gives for an unplayable video: the single message,
\* the first of a list of messages, or the status.
Reason(v) ==
    IF ~v.msg_list THEN (IF v.message /= NoneVal THEN v.message ELSE v.status)
    ELSE IF v.messages /= << >> THEN v.messages[1]
    ELSE v.status

\* Task k went on to stream selection and path computation, or further.
Selected(k) == job[k].st \in {"ready", "writing", "written"} \/ job[k].tmp_path /= NoneVal

\* C18: a task whose video the provider reports with a status that is not
\* None goes no further than the playability check, and its outcome is an
\* error that carries the provider's reason.
C18_UnplayableIsError ==
    \A k \in DOMAIN job :
        LET v == Provider(tasks[k].url)
        IN  (v.ctor = NoExc /\ v.status /= NoneVal) =>
                /\ ~Selected(k)
                /\ Finished(k) =>
                      /\ job[k].out.video_path = NoneVal
                      /\ Truthy(job[k].out.error)
                      /\ job[k].out.error = Reason(v)

\* The part of C18 the code keeps: a reason that is a non-empty message, or
\* an empty list of messages, makes an error outcome carrying it.
C18_TruthyReasonIsError ==
    \A k \in DOMAIN job :
        LET v == Provider(tasks[k].url)
        IN  (v.ctor = NoExc /\ v.status /= NoneVal /\ Truthy(IsPlayable(v))) =>
                /\ ~Selected(k)
                /\ Finished(k) =>
                      /\ job[k].out.video_path = NoneVal
                      /\ job[k].out.error = Reason(v)

\* ------------------------------------------------------- claims on whole runs

\* C19: every entry of downloaded is the final path of a task whose executor
\* moved its file there, no entry is None, and the progress bar was updated
\* once per entry.
C19_SuccessIsPublished ==
    /\ pb = Cardinality(Keys(downloaded))
    /\ \A i \in Keys(downloaded) :
          /\ downloaded[i] /= NoneVal
          /\ job[i + 1].st = "collected"
          /\ job[i + 1].out.video_path = downloaded[i]
          /\ downloaded[i] \in DOMAIN files

\* The part of C19 the code keeps: one update of the progress bar per entry
\* of downloaded, and an entry that is a path is the path its executor
\* published a file at; a truthy error is never counted as a success.
C19_PathIsPublished ==
    /\ pb = Cardinality(Keys(downloaded))
    /\ \A i \in Keys(downloaded) :
          /\ job[i + 1].st = "collected"
          /\ ~Truthy(job[i + 1].out.error)
          /\ downloaded[i] /= NoneVal =>
                /\ job[i + 1].out.video_path = downloaded[i]
                /\ downloaded[i] \in DOMAIN files

\* C20: once the scratch directory is removed, no worker of a pool is between
\* the start of its transfer and the end of its move, and none writes to or
\* moves from the scratch directory afterwards.
C20_NoScratchUseAfterRemoval ==
    Parallel =>
        /\ late = {}
        /\ tmp_dir = "removed" =>
              \A k \in DOMAIN job : job[k].st \notin {"writing", "written"}

\* The part of C20 the code keeps: the workers of a process pool are stopped
\* before the scratch directory is removed.
C20_ProcessWorkersStopped ==
    (Parallel /\ ~use_threads) =>
        /\ late = {}
        /\ tmp_dir = "removed" =>
              \A k \in DOMAIN job : job[k].st \notin {"ready", "writing", "written"}

====
